---- MODULE Spec2Model ----
(***************************************************************************)
(* Model of src/cleanup-status-checker/cleanup_status_checker.py: the      *)
(* stale knowledge-base cleanup job (discovery, batch processing, the      *)
(* asynchronous continuation dispatch and the DynamoDB status record).     *)
(*                                                                         *)
(* Strings are sequences of one-character strings, so that prefix          *)
(* handling is computed as the code computes it.  Time is counted in days. *)
(* The functions behave as Python runs them: reading a name that is       *)
(* neither a parameter nor a name of the module raises NameError, a call   *)
(* with another number of arguments than the function declares raises     *)
(* TypeError, and an attribute the class does not define raises            *)
(* AttributeError: so does self.batch_size, which no line assigns.  The     *)
(* function is invoked from outside only: no call of the file sends an     *)
(* invocation, so every trigger lambda_handler receives comes from a       *)
(* caller of the function.                                                 *)
(*                                                                         *)
(* The module also models the request authorizer                           *)
(* (src/authorizer/authorizer.py) and the two chunk handlers               *)
(* (src/chunk-cleanup/chunk_cleanup.py and                                 *)
(* src/chunk-file-content/chunk_file_content.py), each under a             *)
(* specification of its own.                                               *)
(***************************************************************************)
EXTENDS Integers, Sequences, FiniteSets, TLC

\* ------------------------------------------------------------------ bounds
MaxIdLen == 4          \* characters of a resource id or knowledge-base name
MaxFeedback == 2       \* items of a feedback list
MaxKeys == 2           \* entries of the "keys" list of the JWKS document
MaxChunks == 3         \* keys in the Chunk_keys list of a chunk handler event
NumKbs == 3            \* rows of the knowledge-base listing
MaxBatchSize == 2      \* KBS_PER_BATCH is drawn from 1..MaxBatchSize
MaxStarts == 2         \* triggers a caller sends to the function
MaxUpdates == 3        \* writes and removals of the status record alone
MaxMarks == 1          \* writes and removals of the status record beside a job
MaxRedeliveries == 1   \* duplicate deliveries of an asynchronous invocation
Now == 100             \* datetime.now(), in days

\* ------------------------------------------------------- program constants
KB_PREFIX == <<"k", "b", "_">>
AgeSet == {20, 30, 45, 60}
Thresholds == {30, 45}
DEFAULT_DAYS_THRESHOLD == 30
MAX_RETRIES == 3
JobIds == {"j1", "j2"}
Statuses == {"Pending", "InProgress", "Succeeded", "Failed"}
NoComment == "None"
Comments == {"c1", "c2"}
NoItem == [CleanupStatus |-> "absent", CleanupComment |-> NoComment]
NoResponse == [statusCode |-> 0, message |-> "None"]
Outcomes == {"ok", "no_secrets", "db_error"}

IdChars == <<"a", "b", "c", "d", "e", "f">>

\* ------------------------------------------------------------ pure helpers
Min(a, b) == IF a < b THEN a ELSE b

Range(s) == {s[i] : i \in 1..Len(s)}

CeilDiv(n, b) == (n + b - 1) \div b

\* kb_name.startswith("kb_")
StartsWithPrefix(kb_name) ==
    /\ Len(kb_name) >= Len(KB_PREFIX)
    /\ SubSeq(kb_name, 1, Len(KB_PREFIX)) = KB_PREFIX

\* extract_re_id: strip the prefix at the start of the name only
extract_re_id(kb_name) ==
    IF StartsWithPrefix(kb_name)
    THEN SubSeq(kb_name, Len(KB_PREFIX) + 1, Len(kb_name))
    ELSE kb_name

\* The rows SELECT kb_name returns: the last one carries no prefix.
KbName(i) == IF i = NumKbs THEN <<IdChars[i]>> ELSE KB_PREFIX \o <<IdChars[i]>>

KbRows == [i \in 1..NumKbs |-> KbName(i)]

KbNames == Range(KbRows)

ReIds == {extract_re_id(n) : n \in KbNames}

\* the keys of the feedback table: two ids and the empty id a request without
\* ReverseEnggID is filed under
FeedbackIds == {"r1", "r2", ""}
NoFeedback == [None |-> TRUE]

VARIABLES
    feedback_table, \* [ReverseEnggID -> the Feedback attribute of the item]
    bucket,         \* the keys of the objects the S3 bucket of the chunk handlers holds
    batch_size,     \* KBS_PER_BATCH of this deployment (l.25), the size of a window
    kb_rows,        \* the rows SELECT kb_name returns, in order
    created_at,     \* [re_id -> day]: created_at in the vector table of re_id
    tables,         \* [re_id -> "rows" | "empty" | "dropped"]
    bedrock_kbs,    \* the knowledge bases Bedrock holds
    store,          \* [re_id -> item]: the DynamoDB status record
    first_comment,  \* [re_id -> comment]: first update answered that carried one (history)
    queue,          \* asynchronous invocations in flight, in arrival order
    batch_result,   \* the last batch_result
    response,       \* what the last lambda_handler call returned
    outdated_kbs,   \* what the last find_outdated_kbs call returned
    jobs,           \* [job_id -> history of the job]
    last,           \* the last operation and its inputs (history)
    budget          \* calls still allowed, per operation (bounds the model)

vars == <<feedback_table, bucket, batch_size, kb_rows, created_at, tables, bedrock_kbs, store, first_comment, queue,
          batch_result, response, outdated_kbs, jobs, last, budget>>


\* ------------------------------------------------------------------- calls
\* A call passes its arguments by position: with another number of arguments
\* than the function declares parameters it raises TypeError before the body
\* runs. A method looked up on an instance receives the instance first.
Callable(params, args) == Len(args) = Len(params)

\* The names the module binds at its top level (l.10-43, l.202): imports,
\* constants and classes.
ModuleNames ==
    {"json", "os", "boto3", "ClientError", "time", "uuid", "logging", "HTTPStatus",
     "datetime", "timedelta", "timezone", "Dict", "List", "Optional", "psycopg2",
     "logger", "KBS_PER_BATCH", "MAX_RETRIES", "RETRY_DELAY",
     "DEFAULT_DAYS_THRESHOLD", "DELAY_BETWEEN_KBS", "KB_PREFIX",
     "DYNAMODB_TABLE_NAME", "REGION", "DateTimeEncoder", "BedrockDBAgent",
     "VectorTableDeleter"}

\* A name read in a function body is bound when it is a parameter of the
\* function or a name of the module; reading any other name raises NameError.
Bound(names, params) == names \subseteq (Range(params) \cup ModuleNames)

\* The methods each class defines that the handlers look up on an agent.
AgentClasses == {"BedrockDBAgent", "VectorTableDeleter"}

\* The attributes __init__ assigns on an instance (l.49-51, l.207-209);
\* reading any other attribute that is not a method raises AttributeError.
InstanceAttributes(class) ==
    IF class = "BedrockDBAgent"
    THEN {"bedrock_client", "dynamodb_client", "dynamodb_table"}
    ELSE {"database_name", "SECRET_NAME", "region"}

DefinesExtractReId(agent) == agent = "VectorTableDeleter"

\* def extract_re_id(kb_name : str) (l.291): one parameter, no self
ExtractReIdParams == <<"kb_name">>

\* bedrock_agent.extract_re_id(kb_name) (l.387, l.402, l.415, l.424): on a
\* BedrockDBAgent the attribute is missing (AttributeError); on a
\* VectorTableDeleter the bound call passes the instance and the name to the
\* one parameter (TypeError).
extract_re_id_on(agent, kb_name) ==
    IF ~DefinesExtractReId(agent)
    THEN [raised |-> TRUE, error |-> "AttributeError", re_id |-> <<>>]
    ELSE IF ~Callable(ExtractReIdParams, <<"self", "kb_name">>)
         THEN [raised |-> TRUE, error |-> "TypeError", re_id |-> <<>>]
         ELSE [raised |-> FALSE, error |-> "None", re_id |-> extract_re_id(kb_name)]

\* ------------------------------------------------------------ status store
Items == [CleanupStatus : Statuses, CleanupComment : Comments \cup {NoComment}]

\* The UpdateExpression of update_cleanup_status (l.176), word by word.
UpdateExpression ==
    <<"set", "CleanupStatus", "=", ":status", ",", "CleanupComment", "=", ":comment",
      "if", "CleanupComment", "is", "null">>

AttributePaths == {"CleanupStatus", "CleanupComment"}

ValuePlaceholders == {":status", ":comment"}

\* DynamoDB's SET clause: path = value {, path = value}, and nothing after it.
RECURSIVE SetActions(_, _)
SetActions(tokens, i) ==
    /\ i + 2 <= Len(tokens)
    /\ tokens[i] \in AttributePaths
    /\ tokens[i + 1] = "="
    /\ tokens[i + 2] \in ValuePlaceholders
    /\ \/ i + 2 = Len(tokens)
       \/ /\ i + 3 <= Len(tokens)
          /\ tokens[i + 3] = ","
          /\ SetActions(tokens, i + 4)

ValidUpdateExpression(tokens) ==
    /\ Len(tokens) >= 1
    /\ tokens[1] = "set"
    /\ SetActions(tokens, 2)

\* What dynamodb_client.update_item (l.171-181) answers a reachable store:
\* the client refuses {"S": None} before it sends anything
\* (ParamValidationError, not a ClientError), and the store rejects a request
\* whose expression it cannot parse (ValidationException, a ClientError).
UpdateItemError(comment) ==
    IF comment = NoComment
    THEN "ParamValidationError"
    ELSE IF ~ValidUpdateExpression(UpdateExpression)
         THEN "ValidationException"
         ELSE "None"

\* The item the request leaves: a rejected request writes nothing.
UpdateItem(item, status, comment) ==
    IF UpdateItemError(comment) = "None"
    THEN [CleanupStatus |-> status, CleanupComment |-> comment]
    ELSE item

\* update_cleanup_status (l.166-183): except ClientError logs and returns;
\* any other exception leaves the function.
ClientErrors == {"ClientError", "ValidationException"}

update_cleanup_status(item, status, comment, storeOk) ==
    LET error == IF UpdateItemError(comment) = "ParamValidationError"
                 THEN "ParamValidationError"
                 ELSE IF ~storeOk THEN "ClientError" ELSE UpdateItemError(comment)
    IN [item |-> IF error = "None" THEN UpdateItem(item, status, comment) ELSE item,
        error |-> error,
        raised |-> error \notin ClientErrors \cup {"None"}]

\* remove_kb_and_ds_id (l.152-164): delete_item on the key of the status
\* record; a ClientError is logged and the item stays.
remove_kb_and_ds_id(item, storeOk) == IF storeOk THEN NoItem ELSE item

\* What a read returns: the value, or the exception that leaves the function.
StatusReturned(value) == [status |-> value, raised |-> FALSE, error |-> "None"]

StatusRaised(error) == [status |-> "None", raised |-> TRUE, error |-> error]

\* a read that answers from the record whether or not the store answered
get_cleanup_status_despite_error(item, storeOk) ==
    IF item = NoItem
    THEN StatusReturned("None")
    ELSE IF "CleanupStatus" \notin DOMAIN item
         THEN StatusRaised("AttributeError")
         ELSE StatusReturned(item.CleanupStatus)

\* get_cleanup_status (l.92-109): item is what the table holds under the key
\* when get_item is called. A failing read is a ClientError, caught at l.107:
\* None. Without an item l.106 returns None. With one, l.105 returns
\* item.get("CleanupStatus").get("S"): an item without that attribute gives
\* None.get("S"), an AttributeError that l.107 does not catch.
get_cleanup_status(item, storeOk) ==
    IF ~storeOk
    THEN StatusReturned("None")
    ELSE IF item = NoItem
         THEN StatusReturned("None")
         ELSE IF "CleanupStatus" \notin DOMAIN item
              THEN StatusRaised("AttributeError")
              ELSE StatusReturned(item.CleanupStatus)

\* ---------------------------------------------------------------- discovery
\* def is_kb_older_than_threshold(updated_at, days) (l.255): two parameters,
\* no self
IsKbOlderParams == <<"updated_at", "days">>

\* is_kb_older_than_threshold called with its two parameters: the body reads
\* self (l.260) and ReverseEnggID (l.278); an unbound name raises NameError
\* inside the try block and l.287-289 return False. The comparison of
\* l.284-286 (a date earlier than now - days) is not reached.
is_kb_older_than_threshold(updated_at, days) ==
    IF ~Bound({"self", "ReverseEnggID"}, IsKbOlderParams)
    THEN FALSE
    ELSE updated_at < Now - days

\* a discovery that returns the whole listing when the secret or a query fails
find_outdated_kbs_fail_open(rows, days, listOutcome) ==
    IF listOutcome # "ok" THEN rows ELSE <<>>

\* find_outdated_kbs (l.304-340): [] without secrets (l.312) and on a
\* failing connection. The query of l.327 reads self.dynamodb_table, which a
\* VectorTableDeleter does not hold: the AttributeError is caught at l.338 and
\* [] is returned. Past it an empty listing gives [] (l.331), and for the first
\* row of a listing l.335 calls
\* self.is_kb_older_than_threshold(kb_name, days_threshold), three arguments
\* to two parameters: a TypeError, caught at l.338 as well. rows is what
\* fetchall() returns for SELECT kb_name (l.327-329), one row per name.
find_outdated_kbs(rows, days, listOutcome) ==
    IF listOutcome # "ok"
    THEN <<>>
    ELSE IF "dynamodb_table" \notin InstanceAttributes("VectorTableDeleter")
         THEN <<>>
         ELSE IF rows = <<>>
              THEN <<>>
              ELSE IF ~Callable(IsKbOlderParams, <<"self", "kb_name", "days_threshold">>)
                   THEN <<>>
                   ELSE SelectSeq(rows, LAMBDA n : is_kb_older_than_threshold(n, days))

\* ------------------------------------------------------------------ deletion
\* delete_vector_table: DROP TABLE IF EXISTS, False on any failure
delete_vector_table(re_id, outcome, tbl) ==
    IF outcome = "ok"
    THEN [ok |-> TRUE, tables |-> [tbl EXCEPT ![re_id] = "dropped"]]
    ELSE [ok |-> FALSE, tables |-> tbl]

EmptyResult == [success |-> <<>>, failed |-> <<>>]

NoCalls == [success |-> <<>>, failed |-> <<>>, attempted |-> <<>>]

\* The loop of _handle_bulk_cleanup (l.423-428), of _handle_async_process
\* (l.400-406) and of lambda_handler (l.386-388) over the names of kb_batch,
\* threading the tables. attempted lists the names delete_vector_table was
\* called for, in call order. The loop is left by the exception of the first
\* extract_re_id call.
RECURSIVE BatchLoop(_, _, _, _, _, _)
BatchLoop(agent, kb_batch, outcomes, i, tbl, acc) ==
    IF i > Len(kb_batch)
    THEN [result |-> [success |-> acc.success, failed |-> acc.failed],
          tables |-> tbl, attempted |-> acc.attempted, raised |-> FALSE]
    ELSE LET e == extract_re_id_on(agent, kb_batch[i]) IN
         IF e.raised
         THEN [result |-> [success |-> acc.success, failed |-> acc.failed],
               tables |-> tbl, attempted |-> acc.attempted, raised |-> TRUE]
         ELSE LET d == delete_vector_table(e.re_id, outcomes[i], tbl)
                  called == [acc EXCEPT !.attempted = Append(@, kb_batch[i])]
              IN BatchLoop(agent, kb_batch, outcomes, i + 1, d.tables,
                           IF d.ok
                           THEN [called EXCEPT !.success = Append(@, kb_batch[i])]
                           ELSE [called EXCEPT !.failed = Append(@, kb_batch[i])])

\* _handle_bulk_cleanup: the loop, then return batch_result
handle_bulk_cleanup(kb_batch, agent, outcomes, tbl) ==
    BatchLoop(agent, kb_batch, outcomes, 1, tbl, NoCalls)

\* delete_kb: a ClientError is logged and not raised
delete_kb(kb_id, outcome, kbs) ==
    IF outcome = "ok" THEN kbs \ {kb_id} ELSE kbs

\* check_and_retry_kb_deletion: for i in range(max_retries): delete_kb(kb_id);
\* return True.  delete_kb raises nothing, so the first pass returns.
check_and_retry_kb_deletion(kb_id, max_retries, outcomes, kbs) ==
    IF max_retries >= 1
    THEN [ok |-> TRUE, kbs |-> delete_kb(kb_id, outcomes[1], kbs), attempts |-> 1]
    ELSE [ok |-> FALSE, kbs |-> kbs, attempts |-> 0]

\* --------------------------------------------------------------- dispatching
\* The payload of l.362-367.
Payload(batch, i, days_threshold, job_id) ==
    [kb_batch |-> batch, start_index |-> i,
     days_threshold |-> days_threshold, job_id |-> job_id]

\* process_kb_batch_asynchronously (l.355-372): the loop header of l.360
\* reads self.batch_size, which a VectorTableDeleter does not hold
\* (l.207-209 assign database_name, SECRET_NAME and region): AttributeError
\* before the first pass, for every kb_batch, the empty one too. Nothing
\* catches it and lambda_client.invoke (l.368) is not reached. The loop it
\* would run sends one payload per slice of the whole kb_batch, carrying the
\* loop index i; start_index is not read.
process_kb_batch_asynchronously(kb_batch, start_index, days_threshold, job_id) ==
    IF "batch_size" \notin InstanceAttributes("VectorTableDeleter")
    THEN [sent |-> <<>>, raised |-> TRUE]
    ELSE LET n == Len(kb_batch)
             k == CeilDiv(n, batch_size)
         IN [sent |-> [j \in 1..k |->
                         LET i == (j - 1) * batch_size IN
                         Payload(SubSeq(kb_batch, i + 1, Min(i + batch_size, n)),
                                 i, days_threshold, job_id)],
             raised |-> FALSE]

\* ------------------------------------------------------------------ handlers
\* What a handler did: the tables it leaves, the names it called
\* delete_vector_table for, what it returned, whether it ended with an
\* exception, whether it ran discovery, the job it worked for and the
\* invocations it sent.
Handled(tbl, attempted, raised, job_id) ==
    [tables |-> tbl, attempted |-> attempted, response |-> NoResponse,
     raised |-> raised, discovery |-> FALSE, job_id |-> job_id, dispatched |-> <<>>]

ContinuationFields == {"start_index", "days_threshold", "job_id"}

\* lambda_handler(event, context) (l.373-388). Its first statements build the
\* two agents: l.379 reads BedRockKBAgent and VectorTableDeleter() reads
\* DATABASE_NAME and DATABASE_SECRET_NAME (l.207-208); the try block has no
\* handler, so the NameError of an unbound name ends the invocation. Past
\* them a trigger carrying kb_batch has event["start_index"],
\* event["days_threshold"] and event["job_id"] read (KeyError when one is
\* missing) and the vector table of every name of the batch deleted; any
\* other trigger does nothing. The function has no return statement, calls
\* neither find_outdated_kbs nor a job id generator, and sends nothing.
lambda_handler(event, outcomes, tbl) ==
    IF ~Bound({"BedRockKBAgent", "DATABASE_NAME", "DATABASE_SECRET_NAME"}, <<>>)
    THEN Handled(tbl, <<>>, TRUE, "None")
    ELSE IF "kb_batch" \in DOMAIN event
         THEN IF ContinuationFields \subseteq DOMAIN event
              THEN LET b == BatchLoop("BedrockDBAgent", event.kb_batch, outcomes, 1,
                                      tbl, NoCalls)
                   IN Handled(b.tables, b.attempted, b.raised, event.job_id)
              ELSE Handled(tbl, <<>>, TRUE, "None")
         ELSE Handled(tbl, <<>>, FALSE, "None")

\* _handle_async_process(self, event, bedrock_agent, vector_deleter)
\* (l.391-411): its first statement is the call of find_outdated_kbs (l.392)
\* with days_threshold, which l.394 assigns: that makes it a local name of the
\* function, and reading it at l.392 raises UnboundLocalError before
\* find_outdated_kbs is called. The function catches nothing. With the name
\* bound the call runs discovery for every invocation.
HandleAsyncParams == <<"self", "event", "bedrock_agent", "vector_deleter">>

\* a handler that reads days_threshold from the event before it calls
\* find_outdated_kbs: every invocation queries the candidates
handle_async_process_rediscovering(event, tbl) ==
    [Handled(tbl, <<>>, FALSE, event.job_id) EXCEPT !.discovery = TRUE]

handle_async_process(event, tbl) ==
    IF "days_threshold" \notin Range(HandleAsyncParams)
    THEN Handled(tbl, <<>>, TRUE, "None")
    ELSE [Handled(tbl, <<>>, FALSE, event.job_id) EXCEPT !.discovery = TRUE]

\* the response builders
no_kbs_to_cleanup_response ==
    [statusCode |-> 200, message |-> "No knowledge bases to cleanup"]

\* _accepted_response(count, job_id, days_threshold, outdated_kbs); the message
\* is the text "Accepted {count} knowledge bases for cleanup".
accepted_response(count, job_id, days_threshold, kbs) ==
    [statusCode |-> 200,
     body |-> [message |-> <<"Accepted", count, "knowledge bases for cleanup">>,
               job_id |-> job_id,
               days_threshold |-> days_threshold,
               outdated_kbs |-> kbs]]

failed_async_start_response ==
    [statusCode |-> 500, message |-> "Failed to start async process"]

internal_error_response ==
    [statusCode |-> 500, message |-> "Internal error"]

\* ------------------------------------------------------------------- state
\* jobs: what is known of a job. A job is known from the first trigger a
\* caller sends for it: kbs is the list the caller works through (of length
\* n) and first the cursor of that trigger. invocations counts the runs of
\* lambda_handler on the job's triggers, duplicate deliveries included,
\* of the job's triggers, cursor is the index the job reached (first, then
\* the end of every window an invocation worked through), handed holds the
\* names delete_vector_table was called for and complete records that an
\* invocation worked through the last window of the list.
NoJob ==
    [started |-> FALSE, first |-> 0, n |-> 0, invocations |-> 0,
     kbs |-> <<>>, cursor |-> 0, complete |-> FALSE, handed |-> {}]

\* last: op names the operation; applied is its boolean outcome (update: the
\* item was written; remove, get: the store answered; find: the listing
\* answered; retry, delete: the value returned; dispatch: the call returned;
\* continuation: the invocation stays in flight; arrival: the trigger was
\* accepted); n, end_index and status are the lengths, indexes and
\* outcome the operation worked with. event is the trigger a handler
\* received, raised tells that the operation ended with an exception,
\* discovery that it queried the candidates, calls lists the calls it made to
\* its collaborator and outcome what the collaborator answered.
NoLast ==
    [op |-> "init", job_id |-> "None", start_index |-> 0, end_index |-> 0, n |-> 0,
     days_threshold |-> 0, kb_batch |-> <<>>, attempted |-> <<>>, dispatched |-> <<>>,
     kbs |-> <<>>, succeeded_before |-> {}, re_id |-> <<>>, status |-> "None",
     comment |-> NoComment, before |-> NoItem, applied |-> FALSE,
     event |-> <<>>, raised |-> FALSE, discovery |-> FALSE, outcome |-> "None",
     calls |-> <<>>, failed |-> {}, outcomes |-> <<>>]

BatchOps == {"bulk", "continuation", "trigger"}

Succeeded == {r \in ReIds : store[r].CleanupStatus = "Succeeded"}

Budget(updates) ==
    [starts |-> MaxStarts, updates |-> updates, redeliveries |-> MaxRedeliveries]

InitButBucket ==
    /\ feedback_table = [id \in FeedbackIds |-> NoFeedback]
    /\ bedrock_kbs = KbNames
    /\ store = [r \in ReIds |-> NoItem]
    /\ first_comment = [r \in ReIds |-> NoComment]
    /\ queue = <<>>
    /\ batch_result = EmptyResult
    /\ response = NoResponse
    /\ outdated_kbs = <<>>
    /\ jobs = [j \in JobIds |-> NoJob]
    /\ last = NoLast

InitProgram ==
    /\ bucket = {}
    /\ InitButBucket

\* The cleanup job over a full listing whose tables all hold their row,
\* beside an empty status table.
InitJob(b) ==
    /\ InitProgram
    /\ budget = b
    /\ batch_size \in 1..MaxBatchSize
    /\ kb_rows = KbRows
    /\ created_at = [r \in ReIds |-> Now - 45]
    /\ tables = [r \in ReIds |-> "rows"]

Init == InitJob(Budget(MaxMarks))

\* Discovery over every listing, age and table state.
InitDiscovery ==
    /\ InitProgram
    /\ budget = Budget(0)
    /\ batch_size = 1
    /\ kb_rows \in {SubSeq(KbRows, 1, k) : k \in 0..NumKbs}
    /\ created_at \in [ReIds -> {Now - a : a \in AgeSet}]
    /\ tables \in [ReIds -> {"rows", "empty"}]

\* Deletions one after another, over any table state.
InitBulk ==
    /\ InitProgram
    /\ budget = Budget(0)
    /\ batch_size = 1
    /\ kb_rows = KbRows
    /\ created_at = [r \in ReIds |-> Now - 45]
    /\ tables \in [ReIds -> {"rows", "empty"}]

\* The program beside an empty status table.
InitStore ==
    /\ InitProgram
    /\ budget = Budget(MaxUpdates)
    /\ batch_size = 1
    /\ kb_rows = KbRows
    /\ created_at = [r \in ReIds |-> Now - 45]
    /\ tables = [r \in ReIds |-> "rows"]

\* ----------------------------------------------------------------- actions
\* BedrockDBAgent.update_cleanup_status(ReverseEnggID, status, comment):
\* last.outcome is what update_item answered, last.applied that the item was
\* written, last.raised that the exception left the function. first_comment
\* keeps, for a record without a comment, the first comment an update that
\* returned carried for it.
UpdateCleanupStatus(re_id, status, comment, storeOk) ==
    /\ budget.updates > 0
    /\ budget' = [budget EXCEPT !.updates = @ - 1]
    /\ LET u == update_cleanup_status(store[re_id], status, comment, storeOk) IN
         /\ store' = [store EXCEPT ![re_id] = u.item]
         /\ first_comment' =
              IF ~u.raised /\ storeOk /\ first_comment[re_id] = NoComment
              THEN [first_comment EXCEPT ![re_id] = comment]
              ELSE first_comment
         /\ last' = [NoLast EXCEPT !.op = "update", !.re_id = re_id, !.status = status,
                                   !.comment = comment, !.before = store[re_id],
                                   !.outcome = u.error,
                                   !.raised = u.raised,
                                   !.applied = (u.error = "None")]
    /\ UNCHANGED <<feedback_table, bucket, batch_size, kb_rows, created_at, tables, bedrock_kbs, queue, batch_result,
                   response, outdated_kbs, jobs>>

\* BedrockDBAgent.remove_kb_and_ds_id(ReverseEnggID): last.applied tells that
\* delete_item answered.
RemoveKbAndDsId(re_id, storeOk) ==
    /\ budget.updates > 0
    /\ budget' = [budget EXCEPT !.updates = @ - 1]
    /\ store' = [store EXCEPT ![re_id] = remove_kb_and_ds_id(@, storeOk)]
    /\ last' = [NoLast EXCEPT !.op = "remove", !.re_id = re_id,
                              !.before = store[re_id],
                              !.applied = storeOk]
    /\ UNCHANGED <<feedback_table, bucket, batch_size, kb_rows, created_at, tables, bedrock_kbs,
                   first_comment, queue, batch_result, response, outdated_kbs, jobs>>

\* BedrockDBAgent.get_cleanup_status(ReverseEnggID): item is what the table
\* holds under the key. The table is shared with the registration of the
\* knowledge bases, which writes the items (KBID and DSID, read at l.86, are
\* written by no line of this file), so what a read meets is an input of the
\* call. last.before is that item, last.status the value returned, last.applied
\* tells that get_item answered, last.raised that an exception left the
\* function and last.outcome which.
GetCleanupStatus(re_id, item, storeOk) ==
    /\ LET g == get_cleanup_status(item, storeOk) IN
         last' = [NoLast EXCEPT !.op = "get", !.re_id = re_id,
                                !.status = g.status,
                                !.raised = g.raised,
                                !.outcome = g.error,
                                !.before = item,
                                !.applied = storeOk]
    /\ UNCHANGED <<feedback_table, bucket, batch_size, kb_rows, created_at, tables, bedrock_kbs, store,
                   first_comment, queue, batch_result, response, outdated_kbs, jobs, budget>>

\* VectorTableDeleter.find_outdated_kbs(days_threshold): every exception is
\* caught inside, the call always returns.
FindOutdatedKbs(days, listOutcome) ==
    /\ outdated_kbs' = find_outdated_kbs(kb_rows, days, listOutcome)
    /\ last' = [NoLast EXCEPT !.op = "find", !.days_threshold = days,
                              !.kbs = outdated_kbs',
                              !.outcome = listOutcome,
                              !.applied = (listOutcome = "ok")]
    /\ UNCHANGED <<feedback_table, bucket, batch_size, kb_rows, created_at, tables, bedrock_kbs, store, first_comment,
                   queue, batch_result, response, jobs, budget>>

\* VectorTableDeleter.delete_vector_table(ReverseEnggID), called by itself
DeleteVectorTable(re_id, outcome) ==
    /\ LET d == delete_vector_table(re_id, outcome, tables) IN
         /\ tables' = d.tables
         /\ last' = [NoLast EXCEPT !.op = "delete", !.re_id = re_id,
                                   !.outcome = outcome,
                                   !.succeeded_before = Succeeded,
                                   !.applied = d.ok]
    /\ UNCHANGED <<feedback_table, bucket, batch_size, kb_rows, created_at, bedrock_kbs, store, first_comment, queue,
                   batch_result, response, outdated_kbs, jobs, budget>>

\* _handle_bulk_cleanup(kb_batch, bedrock_agent, vector_deleter): batch_result
\* is returned only when the loop ends; last.outcome is the class of the
\* agent the call was given.
HandleBulkCleanup(kb_batch, agent, outcomes) ==
    /\ LET b == handle_bulk_cleanup(kb_batch, agent, outcomes, tables) IN
         /\ batch_result' = IF b.raised THEN batch_result ELSE b.result
         /\ tables' = b.tables
         /\ last' = [NoLast EXCEPT !.op = "bulk", !.kb_batch = kb_batch,
                                   !.attempted = b.attempted,
                                   !.outcome = agent,
                                   !.outcomes = outcomes,
                                   !.raised = b.raised,
                                   !.succeeded_before = Succeeded]
    /\ UNCHANGED <<feedback_table, bucket, batch_size, kb_rows, created_at, bedrock_kbs, store, first_comment, queue,
                   response, outdated_kbs, jobs, budget>>

\* BedrockDBAgent.check_and_retry_kb_deletion(kb_id, max_retries, delay, ReverseEnggID);
\* last.status is the outcome of the last delete_knowledge_base call.
CheckAndRetryKbDeletion(kb_id, max_retries, outcomes) ==
    /\ LET c == check_and_retry_kb_deletion(kb_id, max_retries, outcomes, bedrock_kbs) IN
         /\ bedrock_kbs' = c.kbs
         /\ last' = [NoLast EXCEPT !.op = "retry", !.kb_batch = <<kb_id>>,
                                   !.re_id = extract_re_id(kb_id),
                                   !.n = c.attempts,
                                   !.end_index = max_retries,
                                   !.status = IF c.attempts = 0 THEN "None"
                                              ELSE outcomes[c.attempts],
                                   !.applied = c.ok]
    /\ UNCHANGED <<feedback_table, bucket, batch_size, kb_rows, created_at, tables, store, first_comment,
                   queue, batch_result, response, outdated_kbs, jobs, budget>>

\* process_kb_batch_asynchronously(kb_batch, start_index, days_threshold,
\* job_id), called as l.409 calls it: with the candidate list and the end of
\* the window just worked through, which lies before the end of the list
\* (l.408). last.dispatched holds what the call sent, last.raised tells that
\* it ended with an exception, last.applied that it returned.
ProcessKbBatchAsynchronously(job_id, kb_batch, start_index, days) ==
    /\ start_index \in 1..(Len(kb_batch) - 1)
    /\ LET p == process_kb_batch_asynchronously(kb_batch, start_index, days, job_id) IN
         /\ queue' = queue \o p.sent
         /\ last' = [NoLast EXCEPT !.op = "dispatch", !.job_id = job_id,
                                   !.start_index = start_index,
                                   !.n = Len(kb_batch),
                                   !.days_threshold = days,
                                   !.kbs = kb_batch,
                                   !.dispatched = p.sent,
                                   !.raised = p.raised,
                                   !.applied = ~p.raised]
    /\ UNCHANGED <<feedback_table, bucket, batch_size, kb_rows, created_at, tables, bedrock_kbs, store, first_comment,
                   batch_result, response, outdated_kbs, jobs, budget>>

\* A caller invokes the function asynchronously (InvocationType "Event") with
\* the trigger of job job_id at the cursor start_index of its list kbs: the
\* window of the list at the cursor, the cursor, the threshold and the job
\* id, laid out as the payload of l.362-367. The platform accepts the
\* invocation and holds it in flight. A job has one list.
Retrigger(job_id, kbs, start_index, days) ==
    /\ budget.starts > 0
    /\ budget' = [budget EXCEPT !.starts = @ - 1]
    /\ start_index \in 0..(Len(kbs) - 1)
    /\ jobs[job_id].started => jobs[job_id].kbs = kbs
    /\ LET job == jobs[job_id]
           window == SubSeq(kbs, start_index + 1, Min(start_index + batch_size, Len(kbs)))
           event == Payload(window, start_index, days, job_id)
       IN /\ queue' = Append(queue, event)
          /\ jobs' = [jobs EXCEPT ![job_id] =
                        [job EXCEPT !.started = TRUE,
                                    !.first = IF job.started THEN @ ELSE start_index,
                                    !.n = Len(kbs),
                                    !.kbs = kbs,
                                    !.cursor = IF job.started THEN @ ELSE start_index]]
          /\ last' = [NoLast EXCEPT !.op = "arrival", !.job_id = job_id,
                                    !.event = event,
                                    !.start_index = start_index,
                                    !.n = Len(kbs),
                                    !.days_threshold = days,
                                    !.kb_batch = window,
                                    !.kbs = kbs,
                                    !.applied = TRUE]
    /\ UNCHANGED <<feedback_table, bucket, batch_size, kb_rows, created_at, tables, bedrock_kbs, store, first_comment,
                   batch_result, response, outdated_kbs>>

\* _handle_async_process(event, bedrock_agent, vector_deleter) for a trigger
\* that carries start_index, days_threshold and job_id.
HandleAsyncProcess(job_id, start_index, days) ==
    /\ LET event == [start_index |-> start_index, days_threshold |-> days,
                     job_id |-> job_id]
           h == handle_async_process(event, tables)
       IN /\ tables' = h.tables
          /\ last' = [NoLast EXCEPT !.op = "async", !.job_id = job_id,
                                    !.event = event,
                                    !.start_index = start_index,
                                    !.days_threshold = days,
                                    !.attempted = h.attempted,
                                    !.dispatched = h.dispatched,
                                    !.discovery = h.discovery,
                                    !.raised = h.raised,
                                    !.succeeded_before = Succeeded]
    /\ UNCHANGED <<feedback_table, bucket, batch_size, kb_rows, created_at, bedrock_kbs, store, first_comment, queue,
                   batch_result, response, outdated_kbs, jobs, budget>>

RemoveAt(q, i) == SubSeq(q, 1, i - 1) \o SubSeq(q, i + 1, Len(q))

\* An asynchronous invocation in flight reaches lambda_handler; the platform
\* delivers at least once, so the invocation may stay in flight. Every
\* delivery runs the handler and counts as an invocation of the job. The
\* job's cursor moves to the end of the window when the handler worked
\* through it.
DeliverContinuation(i, again, outcomes) ==
    /\ i \in 1..Len(queue)
    /\ again => budget.redeliveries > 0
    /\ budget' = IF again THEN [budget EXCEPT !.redeliveries = @ - 1] ELSE budget
    /\ LET event == queue[i]
           h == lambda_handler(event, outcomes, tables)
           job == jobs[event.job_id]
           cursor == IF h.raised THEN job.cursor
                     ELSE event.start_index + Len(event.kb_batch)
       IN /\ tables' = h.tables
          /\ response' = h.response
          /\ queue' = IF again THEN queue ELSE RemoveAt(queue, i)
          /\ jobs' = [jobs EXCEPT ![event.job_id] =
                        [@ EXCEPT !.invocations = @ + 1,
                                  !.cursor = cursor,
                                  !.handed = @ \cup Range(h.attempted),
                                  !.complete = @ \/ (~h.raised /\ cursor = job.n)]]
          /\ last' = [NoLast EXCEPT !.op = "continuation", !.job_id = event.job_id,
                                    !.event = event,
                                    !.discovery = h.discovery,
                                    !.start_index = event.start_index,
                                    !.days_threshold = event.days_threshold,
                                    !.kb_batch = event.kb_batch,
                                    !.attempted = h.attempted,
                                    !.raised = h.raised,
                                    !.succeeded_before = Succeeded,
                                    !.applied = again]
    /\ UNCHANGED <<feedback_table, bucket, batch_size, kb_rows, created_at, bedrock_kbs, store, first_comment,
                   batch_result, outdated_kbs>>

\* A trigger without kb_batch (a new job request) reaches lambda_handler.
\* last.kbs records what find_outdated_kbs returns for its threshold.
NewJobTrigger(event, listOutcome) ==
    /\ LET h == lambda_handler(event, <<>>, tables)
           days == IF "days_threshold" \in DOMAIN event
                   THEN event.days_threshold
                   ELSE DEFAULT_DAYS_THRESHOLD
       IN /\ tables' = h.tables
          /\ response' = h.response
          /\ last' = [NoLast EXCEPT !.op = "new_job", !.days_threshold = days,
                                    !.event = event,
                                    !.job_id = h.job_id,
                                    !.discovery = h.discovery,
                                    !.attempted = h.attempted,
                                    !.raised = h.raised,
                                    !.kbs = find_outdated_kbs(kb_rows, days, listOutcome)]
    /\ UNCHANGED <<feedback_table, bucket, batch_size, kb_rows, created_at, bedrock_kbs, store, first_comment, queue,
                   batch_result, outdated_kbs, jobs, budget>>

\* A trigger carrying kb_batch, complete or not, reaches lambda_handler from
\* outside.
Trigger(event, outcomes) ==
    /\ LET h == lambda_handler(event, outcomes, tables) IN
          /\ tables' = h.tables
          /\ response' = h.response
          /\ last' = [NoLast EXCEPT !.op = "trigger", !.event = event,
                                    !.job_id = h.job_id,
                                    !.kb_batch = event.kb_batch,
                                    !.attempted = h.attempted,
                                    !.dispatched = h.dispatched,
                                    !.raised = h.raised,
                                    !.discovery = h.discovery,
                                    !.succeeded_before = Succeeded]
    /\ UNCHANGED <<feedback_table, bucket, batch_size, kb_rows, created_at, bedrock_kbs, store, first_comment, queue,
                   batch_result, outdated_kbs, jobs, budget>>

\* _accepted_response(count, job_id, days_threshold, outdated_kbs), called by
\* itself: the response a caller would return for an accepted job.
AcceptedResponse(count, job_id, days, kbs) ==
    /\ response' = accepted_response(count, job_id, days, kbs)
    /\ last' = [NoLast EXCEPT !.op = "accepted", !.job_id = job_id, !.n = count,
                              !.days_threshold = days, !.kbs = kbs]
    /\ UNCHANGED <<feedback_table, bucket, batch_size, kb_rows, created_at, tables, bedrock_kbs, store,
                   first_comment, queue, batch_result, outdated_kbs, jobs, budget>>

\* ------------------------------------------------------------------ inputs
DeleteOutcomes == {"ok", "db_error"}

\* batches are slices of the listing
Batches == {SubSeq(KbRows, i, j) : i \in 1..NumKbs, j \in 0..NumKbs}

\* candidate lists: the rows of the listing up to one of them
CandidateLists == {SubSeq(KbRows, 1, k) : k \in 0..NumKbs}

NewJobEvents == {<<>>} \cup {[days_threshold |-> d] : d \in Thresholds}

\* the two keys the status record is exercised on
StoreKeys == {extract_re_id(KbRows[1]), extract_re_id(KbRows[NumKbs])}

\* a record without one of its fields
Without(event, f) == [k \in DOMAIN event \ {f} |-> event[k]]

TriggerEvents ==
    LET full == {Payload(b, 0, DEFAULT_DAYS_THRESHOLD, j) : b \in Batches, j \in JobIds}
    IN full \cup {Without(e, f) : e \in full, f \in ContinuationFields}

\* ----------------------------------------------------------- specification
\* The job: the triggers a caller sends for it, their deliveries, the calls of
\* the handlers and the status record beside them.
Retriggers ==
    \E j \in JobIds, kbs \in CandidateLists, c \in 0..NumKbs :
       Retrigger(j, kbs, c, DEFAULT_DAYS_THRESHOLD)

Dispatch ==
    \E j \in JobIds, kbs \in CandidateLists, c \in 0..NumKbs :
       ProcessKbBatchAsynchronously(j, kbs, c, DEFAULT_DAYS_THRESHOLD)

\* The calls that change nothing a later call reads: one from each initial
\* state covers every one of them.
Handlers ==
    /\ last.op = "init"
    /\ \/ Dispatch
       \/ \E j \in JobIds, c \in 0..NumKbs, d \in Thresholds : HandleAsyncProcess(j, c, d)
       \/ \E e \in NewJobEvents, lo \in Outcomes : NewJobTrigger(e, lo)
       \/ \E kbs \in CandidateLists \ {<<>>}, j \in JobIds, d \in Thresholds :
             AcceptedResponse(Len(kbs), j, d, kbs)

Deliveries ==
    \E i \in 1..Len(queue), again \in BOOLEAN :
       \E outcomes \in [1..Len(queue[i].kb_batch) -> DeleteOutcomes] :
          DeliverContinuation(i, again, outcomes)

Next ==
    \/ Retriggers
    \/ Deliveries
    \/ Handlers
    \/ \E r \in ReIds : UpdateCleanupStatus(r, "Succeeded", "c1", TRUE)
    \/ \E r \in ReIds : RemoveKbAndDsId(r, TRUE)

Spec == Init /\ [][Next]_vars

\* Discovery reads the listing, the ages and the tables and writes none of
\* them: one call from each initial state covers every call.
NextDiscovery ==
    /\ last.op = "init"
    /\ \E d \in Thresholds, lo \in Outcomes : FindOutdatedKbs(d, lo)

SpecDiscovery == InitDiscovery /\ [][NextDiscovery]_vars

NextBulk ==
    \E kb_batch \in Batches, agent \in AgentClasses :
       \E outcomes \in [1..Len(kb_batch) -> Outcomes] :
          HandleBulkCleanup(kb_batch, agent, outcomes)

SpecBulk == InitBulk /\ [][NextBulk]_vars

\* The deletions the two agents offer, called one by one.
NextExecutor ==
    \/ \E r \in ReIds, o \in DeleteOutcomes : DeleteVectorTable(r, o)
    \/ \E kb_id \in KbNames, outcomes \in [1..MAX_RETRIES -> {"ok", "client_error"}] :
          CheckAndRetryKbDeletion(kb_id, MAX_RETRIES, outcomes)

SpecExecutor == InitBulk /\ [][NextExecutor]_vars

NextRetry ==
    \/ \E kb_id \in KbNames, max_retries \in 0..MAX_RETRIES,
          outcomes \in [1..MAX_RETRIES -> {"ok", "client_error"}] :
            CheckAndRetryKbDeletion(kb_id, max_retries, outcomes)
    \/ \E r \in ReIds, st \in {"InProgress", "Failed"}, c \in {NoComment, "c1"} :
            UpdateCleanupStatus(r, st, c, TRUE)

SpecRetry == InitStore /\ [][NextRetry]_vars

NextStore ==
    \/ \E r \in StoreKeys, st \in Statuses, c \in Comments \cup {NoComment},
          ok \in BOOLEAN : UpdateCleanupStatus(r, st, c, ok)
    \/ \E r \in StoreKeys, ok \in BOOLEAN : RemoveKbAndDsId(r, ok)

SpecStore == InitStore /\ [][NextStore]_vars

\* The items of the table that hold no CleanupStatus: the one the
\* registration of a knowledge base writes (KBID and DSID, read at l.86), and
\* one with a comment only.
ItemsWithoutStatus ==
    {[KBID |-> "kb1", DSID |-> "ds1"], [CleanupComment |-> "c1"]}

\* The status record written, removed and read, the store answering or
\* failing, the read meeting any item or none.
NextRead ==
    \/ NextStore
    \/ \E r \in StoreKeys, item \in Items \cup ItemsWithoutStatus \cup {NoItem},
          ok \in BOOLEAN :
          GetCleanupStatus(r, item, ok)

SpecRead == InitStore /\ [][NextRead]_vars

NextTrigger ==
    \/ \E e \in TriggerEvents :
          \E outcomes \in [1..Len(e.kb_batch) -> DeleteOutcomes] : Trigger(e, outcomes)
    \/ \E e \in NewJobEvents : NewJobTrigger(e, "ok")

SpecTrigger == InitBulk /\ [][NextTrigger]_vars

\* One job: the triggers of its windows and their deliveries.
InitWindow == InitJob([Budget(0) EXCEPT !.redeliveries = 0])

Deliver ==
    \E i \in 1..Len(queue) :
       \E outcomes \in [1..Len(queue[i].kb_batch) -> DeleteOutcomes] :
          DeliverContinuation(i, FALSE, outcomes)

Redeliver ==
    \E i \in 1..Len(queue) :
       \E outcomes \in [1..Len(queue[i].kb_batch) -> DeleteOutcomes] :
          DeliverContinuation(i, TRUE, outcomes)

NextWindow ==
    \/ \E kbs \in CandidateLists, c \in 0..NumKbs, d \in Thresholds :
          Retrigger("j1", kbs, c, d)
    \/ Deliver

SpecWindow == InitWindow /\ [][NextWindow]_vars

\* One job whose triggers are delivered, also twice, while tables are dropped
\* beside it, and _handle_async_process called on a trigger of the job.
NextResume ==
    \/ \E c \in 0..NumKbs : Retrigger("j1", KbRows, c, DEFAULT_DAYS_THRESHOLD)
    \/ Deliver
    \/ Redeliver
    \/ /\ jobs["j1"].started
       /\ \E c \in 0..NumKbs : HandleAsyncProcess("j1", c, DEFAULT_DAYS_THRESHOLD)
    \/ /\ last.op = "arrival"
       /\ \E r \in ReIds : DeleteVectorTable(r, "ok")

SpecResume == InitJob(Budget(0)) /\ [][NextResume]_vars

\* Two jobs over the same listing, triggered one after the other and
\* delivered interleaved, beside the status records.
InitTwoJobs == InitJob([Budget(MaxMarks) EXCEPT !.redeliveries = 0])

NextTwoJobs ==
    \/ \E r \in ReIds : UpdateCleanupStatus(r, "Succeeded", "c1", TRUE)
    \/ \E j \in JobIds, c \in 0..NumKbs : Retrigger(j, KbRows, c, DEFAULT_DAYS_THRESHOLD)
    \/ Deliver

SpecTwoJobs == InitTwoJobs /\ [][NextTwoJobs]_vars

\* Jobs, each triggered once at index 0, under the delivery the platform
\* promises: every asynchronous invocation in flight is delivered at least
\* once and, after finitely many duplicates, leaves the queue. The candidates
\* are the first k rows of the listing, for every k.
StartJob ==
    \E j \in JobIds, kbs \in CandidateLists, d \in Thresholds :
       /\ ~jobs[j].started
       /\ Retrigger(j, kbs, 0, d)

NextChain == StartJob \/ Redeliver \/ Deliver

SpecChain == InitJob(Budget(0)) /\ [][NextChain]_vars /\ WF_vars(Deliver)

\* ------------------------------------------------------------ serializing
\* str.replace("kb_", ""): every occurrence of the prefix is removed, scanning
\* from the left without overlap
RECURSIVE RemoveAll(_, _)
RemoveAll(str, i) ==
    IF i > Len(str)
    THEN <<>>
    ELSE IF i + Len(KB_PREFIX) - 1 <= Len(str)
            /\ SubSeq(str, i, i + Len(KB_PREFIX) - 1) = KB_PREFIX
         THEN RemoveAll(str, i + Len(KB_PREFIX))
         ELSE <<str[i]>> \o RemoveAll(str, i + 1)

\* _serialize_kb_batch: [kb.replace("kb_", "") for kb in kb_batch]
serialize_kb_batch(kb_batch) ==
    [i \in 1..Len(kb_batch) |-> RemoveAll(kb_batch[i], 1)]

\* _serialize_re_id_batch: ["kb_" + re_id for re_id in re_id_batch]
serialize_re_id_batch(re_id_batch) ==
    [i \in 1..Len(re_id_batch) |-> KB_PREFIX \o re_id_batch[i]]

\* _serialize_re_id_batch then _serialize_kb_batch over a list of ids
SerializeRoundTrip(ids) ==
    /\ last' = [NoLast EXCEPT !.op = "round_trip", !.kb_batch = ids,
                              !.kbs = serialize_kb_batch(serialize_re_id_batch(ids))]
    /\ UNCHANGED <<feedback_table, bucket, batch_size, kb_rows, created_at, tables, bedrock_kbs,
                   store, first_comment, queue, batch_result, response, outdated_kbs, jobs,
                   budget>>

\* _serialize_kb_batch over a list of names
SerializeKbBatch(kb_batch) ==
    /\ last' = [NoLast EXCEPT !.op = "serialize_kb_batch", !.kb_batch = kb_batch,
                              !.kbs = serialize_kb_batch(kb_batch)]
    /\ UNCHANGED <<feedback_table, bucket, batch_size, kb_rows, created_at, tables, bedrock_kbs,
                   store, first_comment, queue, batch_result, response, outdated_kbs, jobs,
                   budget>>

NameChars == {"k", "b", "_", "a"}

Names == UNION {[1..n -> NameChars] : n \in 0..MaxIdLen}

NameLists == UNION {[1..n -> Names] : n \in 0..1}

\* The two functions keep nothing: one call from the initial state covers
\* every call.
NextSerialize ==
    /\ last.op = "init"
    /\ \/ \E ids \in NameLists : SerializeRoundTrip(ids)
       \/ \E kb_batch \in NameLists : SerializeKbBatch(kb_batch)

SpecSerialize == InitStore /\ [][NextSerialize]_vars

\* -------------------------------------------------------------- authorizer
\* src/authorizer/authorizer.py. A header value is a string, a sequence of
\* characters; str.lower() is computed on the letters the inputs use.
Lower(c) ==
    CASE c = "B" -> "b"
      [] c = "E" -> "e"
      [] c = "A" -> "a"
      [] c = "R" -> "r"
      [] c = "Y" -> "y"
      [] c = "S" -> "s"
      [] c = "N" -> "n"
      [] c = "O" -> "o"
      [] OTHER -> c

LowerStr(str) == [i \in 1..Len(str) |-> Lower(str[i])]

StartsWith(str, prefix) ==
    /\ Len(str) >= Len(prefix)
    /\ SubSeq(str, 1, Len(prefix)) = prefix

BearerPrefix == <<"b", "e", "a", "r", "e", "r", " ">>

\* auth_header.lower().startswith("bearer ")
IsBearerExactCase(auth_header) == StartsWith(auth_header, BearerPrefix)

IsBearer(auth_header) == StartsWith(LowerStr(auth_header), BearerPrefix)

\* auth_header.split(" ")[1]: the characters between the first space and the
\* next one (or the end); called only on a value that holds a space.
SplitSecond(str) ==
    LET first == CHOOSE i \in 1..Len(str) :
                    str[i] = " " /\ \A j \in 1..(i - 1) : str[j] # " "
        rest == SubSeq(str, first + 1, Len(str))
        spaces == {i \in 1..Len(rest) : rest[i] = " "}
        stop == IF spaces = {}
                THEN Len(rest) + 1
                ELSE CHOOSE i \in spaces : \A j \in spaces : i <= j
    IN SubSeq(rest, 1, stop - 1)

\* event.get("headers", {}).get("Authorization", ""), then "authorization"
\* when that is empty
AuthHeader(event) ==
    LET headers == IF "headers" \in DOMAIN event THEN event.headers ELSE <<>>
        upper == IF "Authorization" \in DOMAIN headers THEN headers.Authorization ELSE <<>>
    IN IF upper # <<>>
       THEN upper
       ELSE IF "authorization" \in DOMAIN headers THEN headers.authorization ELSE <<>>

\* event.get("methodArn")
MethodArn(event) == IF "methodArn" \in DOMAIN event THEN event.methodArn ELSE "None"

generate_policy(principal_id, effect, resource, custom_code, custom_message) ==
    [principalId |-> principal_id, Effect |-> effect, Resource |-> resource,
     custom_code |-> custom_code, custom_message |-> custom_message]

\* validated is what validate_token(token) does: it returns ("ok"), raises
\* ValueError, or raises another exception.
ValidateOutcomes == {"ok", "ValueError", "Exception"}

authorizer_lambda_handler(event, validated) ==
    LET auth_header == AuthHeader(event) IN
    IF auth_header = <<>> \/ ~IsBearer(auth_header)
    THEN [policy |-> generate_policy("user", "Deny", MethodArn(event), 401,
                                     "unauthorized token not passed in the payload"),
          calls |-> <<>>]
    ELSE LET token == SplitSecond(auth_header)
             method_arn == MethodArn(event)
         IN [policy |->
               CASE validated = "ok" ->
                      generate_policy("user", "Allow", method_arn, 200, "authorized token")
                 [] validated = "ValueError" ->
                      generate_policy("user", "Deny", method_arn, 401, "unauthorized token")
                 [] OTHER ->
                      generate_policy("user", "Deny", method_arn, 500,
                                      "internal server error"),
             calls |-> <<token>>]

\* One request reaches the authorizer; last.calls holds the token handed to
\* validate_token.
Authorize(event, validated) ==
    /\ LET a == authorizer_lambda_handler(event, validated) IN
          /\ response' = a.policy
          /\ last' = [NoLast EXCEPT !.op = "authorizer", !.event = event,
                                    !.outcome = validated, !.calls = a.calls]
    /\ UNCHANGED <<feedback_table, bucket, batch_size, kb_rows, created_at, tables, bedrock_kbs, store,
                   first_comment, queue, batch_result, outdated_kbs, jobs, budget>>

\* header values: the three spellings of the scheme, another scheme, the
\* scheme without a token, with two spaces, with a second word, glued to the
\* token, and behind a leading space
Scheme(spelling) ==
    CASE spelling = "Bearer" -> <<"B", "e", "a", "r", "e", "r">>
      [] spelling = "bearer" -> <<"b", "e", "a", "r", "e", "r">>
      [] spelling = "BEARER" -> <<"B", "E", "A", "R", "E", "R">>
      [] OTHER -> <<"B", "a", "s", "i", "c">>

AuthHeaderValues ==
    {Scheme(sp) \o <<" ", "t">> : sp \in {"Bearer", "bearer", "BEARER", "Basic"}}
    \cup {Scheme("Bearer"), Scheme("Bearer") \o <<" ">>,
          Scheme("Bearer") \o <<" ", " ", "t">>,
          Scheme("bearer") \o <<" ", "t", " ", "u">>,
          Scheme("Bearer") \o <<"t">>,
          <<" ">> \o Scheme("Bearer") \o <<" ", "t">>,
          <<>>}

HeaderMaps ==
    UNION {[keys -> AuthHeaderValues] : keys \in SUBSET {"Authorization", "authorization"}}

AuthEvents ==
    {[headers |-> h, methodArn |-> a] : h \in HeaderMaps, a \in {"arn1", "arn2"}}
    \cup {[headers |-> h] : h \in HeaderMaps}
    \cup {[methodArn |-> a] : a \in {"arn1", "arn2"}}

NextAuthorizer ==
    \E event \in AuthEvents, validated \in ValidateOutcomes : Authorize(event, validated)

SpecAuthorizer == InitStore /\ [][NextAuthorizer]_vars

\* ------------------------------------------------------- authorizer: keys
\* get_public_keys(kid). fetched is what requests.get, raise_for_status and
\* response.json() do together: "ok", or an exception of the request
\* ("http_error") or of the parsing ("bad_json"). jwks is the parsed document;
\* an entry of its "keys" list is a mapping, or something else (NoMapping),
\* on which key.get raises. dict.get of a missing key is None.
NoMapping == [None |-> TRUE]

Get(mapping, field) == IF field \in DOMAIN mapping THEN mapping[field] ELSE "None"

KeyFields == {"kty", "kid", "use", "alg", "n", "e"}

RestrictKey(key) == [f \in KeyFields |-> Get(key, f)]

Raise(message) == [raised |-> message, value |-> <<>>]

Return(value) == [raised |-> "None", value |-> value]

FetchFailed == "Failed to fetch public keys from JWKS"

KeyNotFound == "Public key not found for the given key id"

RECURSIVE ScanKeys(_, _, _)
ScanKeys(kid, keys, i) ==
    IF i > Len(keys)
    THEN Raise(KeyNotFound)
    ELSE IF keys[i] = NoMapping
         THEN Raise(FetchFailed)
         ELSE IF Get(keys[i], "kid") = kid
              THEN Return(RestrictKey(keys[i]))
              ELSE ScanKeys(kid, keys, i + 1)

Reverse(seq) == [i \in 1..Len(seq) |-> seq[Len(seq) + 1 - i]]

get_public_keys_last_match(kid, fetched, jwks) ==
    IF fetched # "ok"
    THEN Raise(FetchFailed)
    ELSE ScanKeys(kid, Reverse(IF "keys" \in DOMAIN jwks THEN jwks.keys ELSE <<>>), 1)

get_public_keys(kid, fetched, jwks) ==
    IF fetched # "ok"
    THEN Raise(FetchFailed)
    ELSE ScanKeys(kid, IF "keys" \in DOMAIN jwks THEN jwks.keys ELSE <<>>, 1)

\* One call of get_public_keys; response is what it returned or raised.
GetPublicKeys(kid, fetched, jwks) ==
    /\ response' = get_public_keys(kid, fetched, jwks)
    /\ last' = [NoLast EXCEPT !.op = "get_public_keys",
                              !.event = [kid |-> kid, jwks |-> jwks],
                              !.outcome = fetched]
    /\ UNCHANGED <<feedback_table, bucket, batch_size, kb_rows, created_at, tables, bedrock_kbs, store,
                   first_comment, queue, batch_result, outdated_kbs, jobs, budget>>

Kids == {"key-1", "key-2"}

JwksEntries ==
    {[kid |-> k, kty |-> "RSA", n |-> v, x5t |-> "x"] : k \in Kids, v \in {"n1", "n2"}}
    \cup {[kty |-> "RSA", n |-> "n1"], NoMapping}

JwksDocuments ==
    {[keys |-> ks] : ks \in UNION {[1..n -> JwksEntries] : n \in 0..MaxKeys}}
    \cup {[issuer |-> "i"]}

FetchOutcomes == {"ok", "http_error", "bad_json"}

\* get_public_keys keeps nothing between calls: one call from the initial
\* state covers every call.
NextKeys ==
    /\ last.op = "init"
    /\ \E kid \in Kids \cup {"key-3"}, fetched \in FetchOutcomes, jwks \in JwksDocuments :
          GetPublicKeys(kid, fetched, jwks)

SpecKeys == InitStore /\ [][NextKeys]_vars

\* ------------------------------------------------------ authorizer: token
\* validate_token(token).  header is what jwt.get_unverified_header gives (a
\* mapping, or HeaderError when it raises JWTError), decoded what jwt.decode
\* does with the key found.  The result names the class of the exception
\* that leaves the function ("None" when it returns).
HeaderError == [JWTError |-> TRUE]

DecodeOutcomes == {"ok", "JWTError", "ExpiredSignatureError", "Exception"}

\* the exception the try block of validate_token ends with ("ok": none)
ValidateBody(header, fetched, jwks, decoded) ==
    IF header = HeaderError
    THEN "JWTError"
    ELSE LET kid == Get(header, "kid") IN
         IF kid \in {"None", ""}
         THEN "ValueError"
         ELSE IF get_public_keys(kid, fetched, jwks).raised # "None"
              THEN "ValueError"
              ELSE decoded

Raised(class, message) == [class |-> class, message |-> message]

\* the same function without its last handler (except Exception)
validate_token_two_handlers(header, fetched, jwks, decoded) ==
    LET body == ValidateBody(header, fetched, jwks, decoded) IN
    CASE body = "ok" -> Raised("None", "None")
      [] body \in {"JWTError", "ExpiredSignatureError"} ->
            Raised("ValueError", "Invalid token")
      [] OTHER -> Raised(body, "None")

\* except JWTError (ExpiredSignatureError is one), then except Exception
validate_token(header, fetched, jwks, decoded) ==
    LET body == ValidateBody(header, fetched, jwks, decoded) IN
    CASE body = "ok" -> Raised("None", "None")
      [] body \in {"JWTError", "ExpiredSignatureError"} ->
            Raised("ValueError", "Invalid token")
      [] OTHER -> Raised("ValueError", "Failed to validate token")

\* which handler of lambda_handler the outcome of validate_token reaches
ValidatedAs(v) ==
    CASE v.class = "None" -> "ok"
      [] v.class = "ValueError" -> "ValueError"
      [] OTHER -> "Exception"

\* One request whose token is validated by validate_token; last.event holds
\* the request and what the library calls did, last.status is how the try
\* block of validate_token ended, last.outcome what left the function.
AuthorizeToken(event, header, fetched, jwks, decoded) ==
    /\ LET v == validate_token(header, fetched, jwks, decoded)
           a == authorizer_lambda_handler(event, ValidatedAs(v))
       IN /\ response' = a.policy
          /\ last' = [NoLast EXCEPT !.op = "authorize_token",
                                    !.event = [request |-> event, header |-> header,
                                               fetched |-> fetched, jwks |-> jwks,
                                               decoded |-> decoded],
                                    !.status = ValidateBody(header, fetched, jwks, decoded),
                                    !.outcome = v.class,
                                    !.comment = v.message,
                                    !.calls = a.calls]
    /\ UNCHANGED <<feedback_table, bucket, batch_size, kb_rows, created_at, tables, bedrock_kbs, store,
                   first_comment, queue, batch_result, outdated_kbs, jobs, budget>>

TokenHeaders ==
    {HeaderError, [alg |-> "RS256"]}
    \cup {[alg |-> "RS256", kid |-> k] : k \in Kids \cup {""}}

\* requests that carry a bearer token (an empty one included)
TokenEvents ==
    {[headers |-> [Authorization |-> v], methodArn |-> "arn1"] :
        v \in {Scheme("Bearer") \o <<" ", "t">>, Scheme("BEARER") \o <<" ", "t">>,
               Scheme("Bearer") \o <<" ">>}}

\* The authorizer keeps nothing between requests: one request from the
\* initial state covers every request.
NextToken ==
    /\ last.op = "init"
    /\ \E event \in TokenEvents, header \in TokenHeaders, fetched \in FetchOutcomes,
          jwks \in JwksDocuments, decoded \in DecodeOutcomes :
             AuthorizeToken(event, header, fetched, jwks, decoded)

SpecToken == InitStore /\ [][NextToken]_vars

\* ------------------------------------------------------ feedback telemetry
\* src/capture-feedback/capture_feedback_telemetry_process.py. An item of the
\* feedback list is a dict, or something else (NoMapping); the value under
\* "Option" is a string, or something else (None, written NoString), on which
\* .lower() raises AttributeError; item.get("Option", '') of a dict without
\* the key is the empty string.
NoString == <<"None">>

OptionOf(item) == IF "Option" \in DOMAIN item THEN item.Option ELSE <<>>

IsOption(item, word) ==
    /\ item # NoMapping
    /\ LowerStr(OptionOf(item)) = word

IsOptionExactCase(item, word) ==
    /\ item # NoMapping
    /\ OptionOf(item) = word

Yes == <<"y", "e", "s">>

No == <<"n", "o">>

CountOption(feedback_array, word) ==
    Cardinality({i \in 1..Len(feedback_array) : IsOption(feedback_array[i], word)})

\* "if not feedback_array" holds for the empty list; only ValueError is
\* caught, so the AttributeError leaves the function.
calculate_response(feedback_array) ==
    IF feedback_array = <<>>
    THEN Return(<<0, 0, 0>>)
    ELSE IF \E i \in 1..Len(feedback_array) :
               /\ feedback_array[i] # NoMapping
               /\ OptionOf(feedback_array[i]) = NoString
         THEN Raise("AttributeError")
         ELSE Return(<<Len(feedback_array), CountOption(feedback_array, Yes),
                       CountOption(feedback_array, No)>>)

CalculateResponse(feedback_array) ==
    /\ response' = calculate_response(feedback_array)
    /\ last' = [NoLast EXCEPT !.op = "calculate_response",
                              !.event = [feedback_array |-> feedback_array]]
    /\ UNCHANGED <<feedback_table, bucket, batch_size, kb_rows, created_at, tables, bedrock_kbs, store,
                   first_comment, queue, batch_result, outdated_kbs, jobs, budget>>

OptionValues ==
    {<<"y", "e", "s">>, <<"Y", "e", "s">>, <<"Y", "E", "S">>, <<"n", "o">>,
     <<"N", "o">>, <<"y", "e", "s", " ">>, <<>>, NoString}

FeedbackItems ==
    {[Option |-> o] : o \in OptionValues} \cup {[Comment |-> "c"], NoMapping}

FeedbackLists == UNION {[1..n -> FeedbackItems] : n \in 0..MaxFeedback}

\* prepare_telemetry_payload(event, event_name, event_description,
\* custom_properties, is_error): the eventProperties of the one event of the
\* body; identifiers, timestamp, names and headers are copied through and are
\* left out. An exception of calculate_response leaves the function.
StatusAlwaysSuccess(is_error) == "success"

StatusOf(is_error) == IF is_error THEN "failed" ELSE "success"

prepare_telemetry_payload(custom_properties, is_error) ==
    LET feedback_array == IF "feedback_array" \in DOMAIN custom_properties
                          THEN custom_properties.feedback_array
                          ELSE <<>>
        counted == calculate_response(feedback_array)
        event_properties ==
            [thumbs_value |-> IF "thumbs_value" \in DOMAIN custom_properties
                              THEN custom_properties.thumbs_value
                              ELSE 0,
             total_responses |-> counted.value[1],
             positive_responses |-> counted.value[2],
             negative_responses |-> counted.value[3],
             feedback |-> feedback_array,
             status |-> StatusOf(is_error)]
    IN IF counted.raised # "None"
       THEN counted
       ELSE IF is_error /\ "error" \in DOMAIN custom_properties
            THEN Return([error |-> custom_properties.error] @@ event_properties)
            ELSE Return(event_properties)

PrepareTelemetryPayload(custom_properties, is_error) ==
    /\ response' = prepare_telemetry_payload(custom_properties, is_error)
    /\ last' = [NoLast EXCEPT !.op = "prepare_telemetry_payload",
                              !.event = custom_properties,
                              !.applied = is_error]
    /\ UNCHANGED <<feedback_table, bucket, batch_size, kb_rows, created_at, tables, bedrock_kbs, store,
                   first_comment, queue, batch_result, outdated_kbs, jobs, budget>>

CustomProperties ==
    LET arrays == {[feedback_array |-> f, thumbs_value |-> 1] :
                      f \in FeedbackLists}
                  \cup {[thumbs_value |-> 1]}
    IN arrays \cup {[error |-> "e1"] @@ c : c \in arrays}

\* Both functions keep nothing between calls: one call from the initial state
\* covers every call.
NextFeedback ==
    /\ last.op = "init"
    /\ \/ \E f \in FeedbackLists : CalculateResponse(f)
       \/ \E c \in CustomProperties, is_error \in BOOLEAN :
             PrepareTelemetryPayload(c, is_error)

SpecFeedback == InitStore /\ [][NextFeedback]_vars

\* ------------------------------------------------------- capture feedback
\* capture_feedback.lambda_handler(event, context).  outcomes tells, for each
\* collaborator call, whether it returns ("ok") or raises: get_item of
\* fetch_user_details, update_item of update_feedback_in_dynamodb, the
\* telemetry invocation of process_event_and_call_telemetry_lambda and the one
\* of send_error_telemetry.  All three helpers log and re-raise.
CallOutcomes == {"ok", "raise"}

FeedbackResponse(code, message) == [statusCode |-> code, message |-> message]

\* the except block: send_error_telemetry, then the 500 response; an exception
\* of send_error_telemetry leaves lambda_handler
capture_feedback_failed(outcomes, tbl, calls) ==
    IF outcomes.error_telemetry = "ok"
    THEN [table |-> tbl, calls |-> Append(calls, "send_error_telemetry"),
          response |-> FeedbackResponse(500, "Failed to process feedback"),
          raised |-> FALSE]
    ELSE [table |-> tbl, calls |-> Append(calls, "send_error_telemetry"),
          response |-> NoResponse, raised |-> TRUE]

FeedbackData(event) == IF "body" \in DOMAIN event THEN event.body ELSE <<>>

ReverseEnggIdOf(feedback_data) ==
    IF "ReverseEnggID" \in DOMAIN feedback_data THEN feedback_data.ReverseEnggID ELSE ""

capture_feedback_lambda_handler(event, outcomes, tbl) ==
    LET feedback_data == FeedbackData(event)
        reverse_engg_id == ReverseEnggIdOf(feedback_data)
        fetched == <<"fetch_user_details">>
        updated == Append(fetched, "update_feedback_in_dynamodb")
        sent == Append(updated, "process_event_and_call_telemetry_lambda")
        stored == [tbl EXCEPT ![reverse_engg_id] = feedback_data]
    IN IF outcomes.fetch # "ok"
       THEN capture_feedback_failed(outcomes, tbl, fetched)
       ELSE IF outcomes.update # "ok"
            THEN capture_feedback_failed(outcomes, tbl, updated)
            ELSE IF outcomes.telemetry # "ok"
                 THEN capture_feedback_failed(outcomes, stored, sent)
                 ELSE [table |-> stored, calls |-> sent,
                       response |-> FeedbackResponse(200, "Feedback processed successfully"),
                       raised |-> FALSE]

\* One request reaches capture_feedback.lambda_handler; last.calls lists the
\* steps it entered, in order, last.before is the table it found.
CaptureFeedback(event, outcomes) ==
    /\ LET h == capture_feedback_lambda_handler(event, outcomes, feedback_table) IN
          /\ feedback_table' = h.table
          /\ response' = h.response
          /\ last' = [NoLast EXCEPT !.op = "capture_feedback", !.event = event,
                                    !.outcomes = outcomes,
                                    !.before = feedback_table,
                                    !.calls = h.calls,
                                    !.raised = h.raised]
    /\ UNCHANGED <<bucket, batch_size, kb_rows, created_at, tables, bedrock_kbs, store,
                   first_comment, queue, batch_result, outdated_kbs, jobs, budget>>

FeedbackEvents ==
    {[body |-> [ReverseEnggID |-> id, thumbs_value |-> t]] : id \in {"r1", "r2"}, t \in {0, 1}}
    \cup {[body |-> [thumbs_value |-> 1]], [headers |-> <<>>]}

NextCapture ==
    \E event \in FeedbackEvents,
       outcomes \in [{"fetch", "update", "telemetry", "error_telemetry"} -> CallOutcomes] :
          CaptureFeedback(event, outcomes)

SpecCapture == InitStore /\ [][NextCapture]_vars

\* ---------------------------------------------------------- chunk handlers
\* src/chunk-cleanup/chunk_cleanup.py deletes and
\* src/chunk-file-content/chunk_file_content.py saves one object per key of
\* event["Chunk_keys"]. The call on a key succeeds ("ok"), raises ClientError
\* ("client_error") or raises another exception ("error").
ChunkKeys == {"k1", "k2"}

StorageOutcomes == {"ok", "client_error", "error"}

ChunkOps == {"chunk_cleanup", "chunk_file_content"}

\* s3_client.delete_object(Key=chunk) and s3_client.put_object(Key=chunk, Body=chunk)
StorageCall(op, chunk, bkt) ==
    IF op = "chunk_cleanup" THEN bkt \ {chunk} ELSE bkt \cup {chunk}

\* for chunk in chunk_keys: the inner try catches ClientError alone; another
\* exception leaves the loop. calls lists the keys the storage was called with.
RECURSIVE ChunkLoop(_, _, _, _, _, _)
ChunkLoop(op, chunk_keys, outcomes, i, bkt, calls) ==
    IF i > Len(chunk_keys)
    THEN [bucket |-> bkt, calls |-> calls, raised |-> FALSE]
    ELSE LET called == Append(calls, chunk_keys[i]) IN
         CASE outcomes[i] = "ok" ->
                ChunkLoop(op, chunk_keys, outcomes, i + 1,
                          StorageCall(op, chunk_keys[i], bkt), called)
           [] outcomes[i] = "client_error" ->
                ChunkLoop(op, chunk_keys, outcomes, i + 1, bkt, called)
           [] OTHER -> [bucket |-> bkt, calls |-> called, raised |-> TRUE]

chunk_loop_until_client_error(op, chunk_keys, outcomes, bkt) ==
    LET errors == {i \in 1..Len(chunk_keys) : outcomes[i] = "client_error"}
        stop == IF errors = {}
                THEN Len(chunk_keys)
                ELSE CHOOSE i \in errors : \A j \in errors : i <= j
    IN ChunkLoop(op, SubSeq(chunk_keys, 1, stop), outcomes, 1, bkt, <<>>)

\* the loop with every exception of the storage call tolerated
chunk_loop_tolerating_all(op, chunk_keys, outcomes, bkt) ==
    ChunkLoop(op, chunk_keys,
              [i \in DOMAIN outcomes |->
                 IF outcomes[i] = "error" THEN "client_error" ELSE outcomes[i]],
              1, bkt, <<>>)

chunk_loop(op, chunk_keys, outcomes, bkt) ==
    ChunkLoop(op, chunk_keys, outcomes, 1, bkt, <<>>)

ChunkDone(op) ==
    [statusCode |-> 200,
     message |-> IF op = "chunk_cleanup"
                 THEN "Chunks deleted successfully"
                 ELSE "Chunks saved successfully"]

ChunkError(op) ==
    [statusCode |-> 500,
     message |-> IF op = "chunk_cleanup"
                 THEN "Error deleting chunks"
                 ELSE "Error saving chunks"]

\* An event that is no mapping (None) is written NoneEvent.
NoneEvent == [None |-> TRUE]

ChunkHandlerMissingAsEmpty(op, event, outcomes, bkt) ==
    LET chunk_keys == IF event # NoneEvent /\ "Chunk_keys" \in DOMAIN event
                      THEN event.Chunk_keys
                      ELSE <<>>
        l == chunk_loop(op, chunk_keys, outcomes, bkt)
    IN [bucket |-> l.bucket, calls |-> l.calls, raised |-> FALSE,
        response |-> IF l.raised THEN ChunkError(op) ELSE ChunkDone(op)]

\* The body both handlers share, all of it inside try ... except Exception:
\* event.get raises on an event that is no mapping, event.get("Chunk_keys")
\* is None for an event without the key and iterating it raises, and the
\* outer except answers 500; no exception leaves the handler.
ChunkHandler(op, event, outcomes, bkt) ==
    IF event = NoneEvent \/ "Chunk_keys" \notin DOMAIN event
    THEN [bucket |-> bkt, calls |-> <<>>, raised |-> FALSE, response |-> ChunkError(op)]
    ELSE LET l == chunk_loop(op, event.Chunk_keys, outcomes, bkt) IN
         [bucket |-> l.bucket, calls |-> l.calls, raised |-> FALSE,
          response |-> IF l.raised THEN ChunkError(op) ELSE ChunkDone(op)]

chunk_cleanup_lambda_handler(event, outcomes, bkt) ==
    ChunkHandler("chunk_cleanup", event, outcomes, bkt)

chunk_file_content_lambda_handler(event, outcomes, bkt) ==
    ChunkHandler("chunk_file_content", event, outcomes, bkt)

ChunkStep(op, h, event, outcomes) ==
    /\ bucket' = h.bucket
    /\ response' = h.response
    /\ last' = [NoLast EXCEPT !.op = op, !.event = event, !.calls = h.calls,
                              !.raised = h.raised, !.outcomes = outcomes]
    /\ UNCHANGED <<feedback_table, batch_size, kb_rows, created_at, tables, bedrock_kbs, store,
                   first_comment, queue, batch_result, outdated_kbs, jobs, budget>>

ChunkCleanup(event, outcomes) ==
    ChunkStep("chunk_cleanup", chunk_cleanup_lambda_handler(event, outcomes, bucket),
              event, outcomes)

ChunkFileContent(event, outcomes) ==
    ChunkStep("chunk_file_content",
              chunk_file_content_lambda_handler(event, outcomes, bucket),
              event, outcomes)

KeyLists == UNION {[1..n -> ChunkKeys] : n \in 0..MaxChunks}

ChunkEvents ==
    {[Chunk_keys |-> ks, FilePath |-> "f"] : ks \in KeyLists}
    \cup {[FilePath |-> "f"], NoneEvent}

ChunkOutcomes(event) ==
    IF "Chunk_keys" \in DOMAIN event
    THEN [1..Len(event.Chunk_keys) -> StorageOutcomes]
    ELSE {<<>>}

\* The bucket holds any of the chunks saved before.
InitChunks ==
    /\ bucket \in SUBSET ChunkKeys
    /\ InitButBucket
    /\ budget = Budget(0)
    /\ batch_size = 1
    /\ kb_rows = KbRows
    /\ created_at = [r \in ReIds |-> Now - 45]
    /\ tables = [r \in ReIds |-> "rows"]

\* A handler keeps nothing but the bucket between requests: one request from
\* each content of the bucket covers every request.
NextChunks ==
    /\ last.op = "init"
    /\ \/ \E event \in ChunkEvents :
             \E outcomes \in ChunkOutcomes(event) : ChunkCleanup(event, outcomes)
       \/ \E event \in ChunkEvents :
             \E outcomes \in ChunkOutcomes(event) : ChunkFileContent(event, outcomes)

SpecChunks == InitChunks /\ [][NextChunks]_vars

\* -------------------------------------------------------------- properties
Age(re_id) == Now - created_at[re_id]

InFlight(j) == \E i \in 1..Len(queue) : queue[i].job_id = j

Window(kbs, cursor) == SubSeq(kbs, cursor + 1, Min(cursor + batch_size, Len(kbs)))

\* C2: a job begun at cursor 0 over N candidates with batch size B has run
\* exactly ceil(N/B) batch invocations once none of its triggers is in
\* flight, and its cursor is then N.
ExactlyCeilInvocations ==
    \A j \in JobIds :
        (jobs[j].started /\ jobs[j].first = 0 /\ jobs[j].n > 0 /\ ~InFlight(j)) =>
            /\ jobs[j].invocations = CeilDiv(jobs[j].n, batch_size)
            /\ jobs[j].cursor = jobs[j].n

\* C4: a bulk cleanup calls delete_vector_table once for every name of the
\* batch, whatever fails, and success and failed partition the batch.
PartialFailureTolerance ==
    last.op = "bulk" =>
        /\ last.attempted = last.kb_batch
        /\ Len(batch_result.success) + Len(batch_result.failed) = Len(last.kb_batch)
        /\ Range(batch_result.success) \cup Range(batch_result.failed)
               = Range(last.kb_batch)
        /\ Range(batch_result.success) \cap Range(batch_result.failed) = {}

\* C5: the stored comment of an id is the comment of the first update that
\* carried one, and an update the store answered sets the status.
CommentWriteOnce ==
    /\ \A r \in ReIds : store[r].CleanupComment = first_comment[r]
    /\ (last.op = "update" /\ ~last.raised /\ last.outcome # "ClientError") =>
           store[last.re_id].CleanupStatus = last.status

\* C6: discovery returns only listed names whose age exceeds the threshold
\* (an age equal to it is excluded), and, when the listing answered, all of
\* them, in listing order.
DiscoveryThreshold ==
    last.op = "find" =>
        LET T == last.days_threshold
            old(n) == tables[extract_re_id(n)] = "rows" /\ Age(extract_re_id(n)) > T
        IN /\ \A i \in 1..Len(outdated_kbs) :
                  outdated_kbs[i] \in Range(kb_rows) /\ old(outdated_kbs[i])
           /\ last.applied => outdated_kbs = SelectSeq(kb_rows, old)

\* C8: when the deletion of a knowledge base failed on every attempt, all
\* max_retries attempts were made, the call reports failure and the status
\* record is Failed with a comment.
ExhaustedRetriesMarkFailed ==
    (/\ last.op = "retry"
     /\ last.end_index >= 1
     /\ last.status = "client_error"
     /\ last.kb_batch[1] \in bedrock_kbs) =>
        /\ last.n = last.end_index
        /\ ~last.applied
        /\ store[last.re_id].CleanupStatus = "Failed"
        /\ store[last.re_id].CleanupComment # NoComment

\* C9: a new-job trigger whose discovery yields nothing is answered 200
\* "No knowledge bases to cleanup" and neither deletes nor dispatches.
EmptyJobIsNoOp ==
    (last.op = "new_job" /\ last.kbs = <<>>) =>
        /\ response = no_kbs_to_cleanup_response
        /\ last.attempted = <<>>
        /\ last.dispatched = <<>>

\* C10: for a job that reached the cursor c of its N candidates a
\* continuation is dispatched iff c < N, and it is one trigger with the job's
\* job_id and days_threshold and start_index equal to c: so it is when the
\* dispatching call has ended.
OneContinuationAtNewCursor ==
    last.op = "dispatch" =>
        /\ (last.dispatched # <<>>) <=> (last.start_index < last.n)
        /\ last.dispatched # <<>> =>
               /\ Len(last.dispatched) = 1
               /\ last.dispatched[1].job_id = last.job_id
               /\ last.dispatched[1].days_threshold = last.days_threshold
               /\ last.dispatched[1].start_index = last.start_index

\* C11: an invocation processes exactly the window
\* candidates[cursor .. min(cursor + batch_size, len)): every dispatched
\* trigger carries such a window of the job's list, and a delivered trigger
\* has exactly its window deleted, at most batch_size names, the job's cursor
\* becoming the trigger's cursor plus the window's length.
ExactWindow ==
    /\ last.op = "dispatch" =>
          \A k \in 1..Len(last.dispatched) :
             last.dispatched[k].kb_batch =
                 Window(last.kbs, last.dispatched[k].start_index)
    /\ last.op = "continuation" =>
          /\ last.attempted = last.kb_batch
          /\ Len(last.attempted) <= batch_size
          /\ jobs[last.job_id].cursor = last.start_index + Len(last.kb_batch)

EntryPointDispatch ==
    /\ last.op = "new_job" =>
          /\ last.discovery
          /\ last.job_id \in JobIds
          /\ jobs[last.job_id].started
          /\ jobs[last.job_id].first = 0
    /\ last.op = "continuation" =>
          /\ last.attempted = last.event.kb_batch
          /\ ~last.discovery
          /\ last.job_id = last.event.job_id

\* C15: the response for an accepted job has status 200 and a body of
\* exactly message, job_id, days_threshold and outdated_count, the last
\* being the number of candidates.
AcceptedFields == {"message", "job_id", "days_threshold", "outdated_count"}

AcceptedJobResponse ==
    last.op = "accepted" =>
        /\ response.statusCode = 200
        /\ DOMAIN response.body = AcceptedFields
        /\ response.body.outdated_count = last.n

\* C16: when the dispatch of the continuation fails, the invocation answers
\* 500 "Failed to start async process" instead of ending with the exception.
DispatchFailureAnswered ==
    (last.op = "dispatch" /\ last.raised) =>
        response = failed_async_start_response

\* C17: a trigger that carries kb_batch but lacks job_id, start_index or
\* days_threshold is answered 500 "Internal error"; nothing is deleted and
\* nothing is dispatched.
MalformedTriggerAnswered ==
    (last.op = "trigger" /\ ~(ContinuationFields \subseteq DOMAIN last.event)) =>
        /\ ~last.raised
        /\ response = internal_error_response
        /\ last.attempted = <<>>
        /\ last.dispatched = <<>>

\* C18: discovery is fail-closed: it always returns, and what it returns is a
\* sequence of listed names; when the secret or a query fails the sequence is
\* empty, and whatever fails it holds no name the healthy discovery (every
\* listed name older than the threshold) would not hold.
FailClosedDiscovery ==
    last.op = "find" =>
        LET old(n) == /\ tables[extract_re_id(n)] = "rows"
                      /\ Age(extract_re_id(n)) > last.days_threshold
            healthy == SelectSeq(kb_rows, old)
        IN /\ ~last.raised
           /\ outdated_kbs \in Seq(KbNames)
           /\ last.outcome # "ok" => outdated_kbs = <<>>
           /\ Range(outdated_kbs) \subseteq Range(healthy)

\* the secret is missing or the query fails over a listing that holds entries
\* older than the threshold, and nothing is returned
FailClosedWitness ==
    /\ last.op = "find" /\ last.outcome \in {"no_secrets", "db_error"}
    /\ outdated_kbs = <<>>
    /\ \E n \in Range(kb_rows) :
          /\ tables[extract_re_id(n)] = "rows"
          /\ Age(extract_re_id(n)) > last.days_threshold

\* C19: the authorizer answers Allow, with code 200, exactly when the
\* authorization header is there, begins with "bearer " in any letter case
\* and validate_token returned for its token; without the header, with
\* another scheme, or on a ValueError of validate_token it answers Deny with
\* code 401; the policy always names the methodArn of the request.
AnyCaseBearer(str) ==
    /\ Len(str) >= 7
    /\ \A i \in 1..6 : str[i] \in {Scheme("bearer")[i], Scheme("BEARER")[i]}
    /\ str[7] = " "

AuthorizerDecision ==
    last.op = "authorizer" =>
        LET auth_header == AuthHeader(last.event)
            bearer == auth_header # <<>> /\ AnyCaseBearer(auth_header)
        IN /\ response.Effect \in {"Allow", "Deny"}
           /\ response.Effect = "Allow" <=> (bearer /\ last.outcome = "ok")
           /\ response.Effect = "Allow" => response.custom_code = 200
           /\ (~bearer \/ last.outcome = "ValueError") =>
                 (response.Effect = "Deny" /\ response.custom_code = 401)
           /\ response.Resource = MethodArn(last.event)
           /\ bearer <=> Len(last.calls) = 1

\* a token under the scheme in capitals, sent in the lower-case header, is
\* validated and allowed
AuthorizerWitness ==
    /\ last.op = "authorizer"
    /\ "headers" \in DOMAIN last.event
    /\ DOMAIN last.event.headers = {"authorization"}
    /\ last.event.headers.authorization = Scheme("BEARER") \o <<" ", "t">>
    /\ last.calls = <<(<<"t">>)>>
    /\ response.Effect = "Allow"
    /\ response.Resource = "arn2"
\* C20: in both chunk handlers, when no storage call raises anything but
\* ClientError, the storage is called exactly once per key of the list, in
\* list order, whatever calls failed, and the answer is 200 with the
\* handler's success message; for the empty list there is no call.
EveryChunkKeyOnce ==
    (/\ last.op \in ChunkOps
     /\ "Chunk_keys" \in DOMAIN last.event
     /\ \A i \in 1..Len(last.outcomes) : last.outcomes[i] # "error") =>
        /\ last.calls = last.event.Chunk_keys
        /\ response.statusCode = 200
        /\ response.message = IF last.op = "chunk_cleanup"
                              THEN "Chunks deleted successfully"
                              ELSE "Chunks saved successfully"

\* the first key fails with ClientError and the second key is still saved
EveryChunkKeyOnceWitness ==
    /\ last.op = "chunk_file_content"
    /\ "Chunk_keys" \in DOMAIN last.event
    /\ Len(last.event.Chunk_keys) = MaxChunks
    /\ last.outcomes[1] = "client_error"
    /\ last.outcomes[MaxChunks] = "ok"
    /\ last.calls = last.event.Chunk_keys
    /\ last.event.Chunk_keys[MaxChunks] \in bucket
    /\ response.statusCode = 200
\* C21: in both chunk handlers an event without Chunk_keys, or one that is
\* no mapping at all, is answered 500 with the handler's error message; no
\* storage call is made and no exception leaves the handler.
MissingChunkKeysAnswered ==
    (/\ last.op \in ChunkOps
     /\ (last.event = NoneEvent \/ "Chunk_keys" \notin DOMAIN last.event)) =>
        /\ response.statusCode = 500
        /\ response.message = IF last.op = "chunk_cleanup"
                              THEN "Error deleting chunks"
                              ELSE "Error saving chunks"
        /\ last.calls = <<>>
        /\ ~last.raised

\* the clean-up handler receives None while the bucket holds a chunk
MissingChunkKeysWitness ==
    /\ last.op = "chunk_cleanup"
    /\ last.event = NoneEvent
    /\ bucket # {}
    /\ response = ChunkError("chunk_cleanup")
\* C22: get_public_keys returns the first entry of the JWKS whose kid is the
\* requested one, cut down to kty, kid, use, alg, n and e; it raises
\* ValueError "Failed to fetch public keys from JWKS" when the fetch or the
\* reading of the document fails, and "Public key not found for the given key
\* id" when the document was read and holds no such entry; it returns neither
\* an entry of another kid nor None.
FirstMatchingKey ==
    last.op = "get_public_keys" =>
        LET kid == last.event.kid
            keys == IF "keys" \in DOMAIN last.event.jwks
                    THEN last.event.jwks.keys
                    ELSE <<>>
            unread == {i \in 1..Len(keys) : keys[i] = NoMapping}
            matches == {i \in 1..Len(keys) :
                           keys[i] # NoMapping /\ "kid" \in DOMAIN keys[i]
                                               /\ keys[i].kid = kid}
            before(i) == \A j \in unread : i < j
            found == {i \in matches : before(i)}
        IN /\ response.raised \in {"None", FetchFailed, KeyNotFound}
           /\ response.raised = "None" <=> (last.outcome = "ok" /\ found # {})
           /\ response.raised = "None" =>
                 LET first == CHOOSE i \in found : \A j \in found : i <= j IN
                 /\ DOMAIN response.value = KeyFields
                 /\ response.value.kid = kid
                 /\ response.value.n = keys[first].n
                 /\ response.value.use = "None"
           /\ response.raised = KeyNotFound <=>
                 (last.outcome = "ok" /\ matches = {} /\ unread = {})
           /\ response.raised = FetchFailed <=>
                 (last.outcome # "ok" \/ (unread # {} /\ found = {}))

\* two entries of the requested kid: the first one is returned
FirstMatchingKeyWitness ==
    /\ last.op = "get_public_keys"
    /\ last.event.kid = "key-2"
    /\ "keys" \in DOMAIN last.event.jwks
    /\ Len(last.event.jwks.keys) = MaxKeys
    /\ \A i \in {1, MaxKeys} :
          /\ last.event.jwks.keys[i] # NoMapping
          /\ Get(last.event.jwks.keys[i], "kid") = "key-2"
    /\ last.event.jwks.keys[1].n = "n2"
    /\ last.event.jwks.keys[MaxKeys].n = "n1"
    /\ response.raised = "None"
    /\ response.value.n = "n2"
\* C23: calculate_response returns (total, positive, negative): total is the
\* length of the list, positive the number of dict items whose Option is
\* "yes" in any letter case, negative the number of those whose Option is
\* "no"; the empty list gives (0, 0, 0) and positive + negative <= total.
SaysAnyCase(item, words) ==
    /\ item # NoMapping
    /\ "Option" \in DOMAIN item
    /\ item.Option \in words

CountsEveryFeedback ==
    last.op = "calculate_response" =>
        LET f == last.event.feedback_array
            yes == {<<"y", "e", "s">>, <<"Y", "e", "s">>, <<"Y", "E", "S">>}
            no == {<<"n", "o">>, <<"N", "o">>}
        IN /\ response.raised = "None"
           /\ response.value[1] = Len(f)
           /\ response.value[2] = Cardinality({i \in 1..Len(f) : SaysAnyCase(f[i], yes)})
           /\ response.value[3] = Cardinality({i \in 1..Len(f) : SaysAnyCase(f[i], no)})
           /\ response.value[2] + response.value[3] <= response.value[1]
           /\ f = <<>> => response.value = <<0, 0, 0>>

\* C24: in the payload prepare_telemetry_payload builds, status is "failed"
\* exactly when is_error holds and "success" otherwise, error is there
\* exactly when is_error holds and custom_properties has "error", and is then
\* that value, and total_responses is the length of the feedback_array of
\* custom_properties.
TelemetryStatusAndError ==
    (last.op = "prepare_telemetry_payload" /\ response.raised = "None") =>
        LET cp == last.event
            is_error == last.applied
            f == IF "feedback_array" \in DOMAIN cp
                 THEN cp.feedback_array
                 ELSE <<>>
        IN /\ response.value.status = "failed" <=> is_error
           /\ response.value.status = "success" <=> ~is_error
           /\ "error" \in DOMAIN response.value <=> (is_error /\ "error" \in DOMAIN cp)
           /\ "error" \in DOMAIN response.value => response.value.error = cp.error
           /\ response.value.total_responses = Len(f)

\* an error event built from properties that carry an error and two answers
TelemetryStatusAndErrorWitness ==
    /\ last.op = "prepare_telemetry_payload"
    /\ last.applied
    /\ response.raised = "None"
    /\ response.value.status = "failed"
    /\ "error" \in DOMAIN response.value
    /\ response.value.error = "e1"
    /\ response.value.total_responses = MaxFeedback
    /\ response.value.positive_responses = 1

\* C25: the registry entry of a knowledge base is deleted only once its
\* vector table is dropped, and a name a batch reports in success has its
\* table dropped and its registry entry deleted.
TableThenRegistryEntry ==
    /\ \A n \in KbNames :
          n \notin bedrock_kbs => tables[extract_re_id(n)] = "dropped"
    /\ last.op = "bulk" =>
          \A i \in 1..Len(batch_result.success) :
             /\ tables[extract_re_id(batch_result.success[i])] = "dropped"
             /\ batch_result.success[i] \notin bedrock_kbs

\* C26: when a batch invocation ends, the status record of every name of its
\* window that was not skipped (not Succeeded when the batch arrived) is
\* Succeeded or Failed, Succeeded exactly for the names reported in success.
AttemptedAreRecorded ==
    last.op = "continuation" =>
        \A i \in 1..Len(last.kb_batch) :
           LET re_id == extract_re_id(last.kb_batch[i])
               status == store[re_id].CleanupStatus
           IN re_id \notin last.succeeded_before =>
                 /\ status \in {"Succeeded", "Failed"}
                 /\ status = "Succeeded" <=>
                       last.kb_batch[i] \in Range(batch_result.success)

\* the ids both jobs have among their candidates
Shared ==
    {extract_re_id(n) : n \in Range(jobs["j1"].kbs) \cap Range(jobs["j2"].kbs)}

\* C29: once two jobs over overlapping candidates have both run to their end,
\* every shared id has the status Succeeded or Failed, and no batch moves an
\* id off Succeeded.
SharedResourcesSettled ==
    /\ (jobs["j1"].started /\ jobs["j2"].started /\ queue = <<>>) =>
          \A r \in Shared : store[r].CleanupStatus \in {"Succeeded", "Failed"}
    /\ last.op \in BatchOps => last.succeeded_before \subseteq Succeeded

\* the chain of job j is over: an invocation reached the end of the list,
\* no trigger of the job is in flight and delete_vector_table was called for
\* every candidate
JobComplete(j) ==
    /\ jobs[j].complete
    /\ ~InFlight(j)
    /\ Range(jobs[j].kbs) \subseteq jobs[j].handed

\* C30: when every trigger in flight is eventually delivered and no dispatch
\* fails, every started job eventually reaches the end of its chain: no
\* trigger pending and every candidate handed to delete_vector_table.
ChainTerminates ==
    \A j \in JobIds : jobs[j].started ~> JobComplete(j)

\* C31: check_and_retry_kb_deletion makes at most max_retries attempts, a
\* failed delete_knowledge_base call is followed by the next attempt while
\* attempts remain, and it returns True only when an attempt succeeded.
BoundedRetryPolicy ==
    last.op = "retry" =>
        /\ last.n <= last.end_index
        /\ last.applied => last.status = "ok"
        /\ last.status = "client_error" => last.n = last.end_index

\* C32: once a batch runs, a failure does not abort it: every name of the
\* window is attempted, the invocation ends without an exception, and every
\* name reported in failed has the status Failed.
FailuresDoNotAbort ==
    last.op = "continuation" =>
        /\ last.attempted = last.kb_batch
        /\ ~last.raised
        /\ \A i \in 1..Len(batch_result.failed) :
              store[extract_re_id(batch_result.failed[i])].CleanupStatus = "Failed"

TokenFailureIsUnauthorized ==
    last.op = "authorize_token" =>
        /\ last.outcome \in {"None", "ValueError"}
        /\ last.outcome = "None" <=> last.status = "ok"
        /\ response.Effect = "Allow" <=> last.status = "ok"
        /\ last.status # "ok" =>
              (response.Effect = "Deny" /\ response.custom_code = 401)
        /\ response.custom_code # 500

\* jwt.decode fails with an exception that is no JWTError, the key having
\* been found, and the request is denied with 401
TokenFailureIsUnauthorizedWitness ==
    /\ last.op = "authorize_token"
    /\ last.event.decoded = "Exception"
    /\ last.status = "Exception"
    /\ last.outcome = "ValueError"
    /\ last.comment = "Failed to validate token"
    /\ last.calls = <<(<<"t">>)>>
    /\ response.Effect = "Deny"
    /\ response.custom_code = 401

IsPrefix(p, q) == Len(p) <= Len(q) /\ SubSeq(q, 1, Len(p)) = p

CaptureSteps ==
    <<"fetch_user_details", "update_feedback_in_dynamodb",
      "process_event_and_call_telemetry_lambda">>

\* C36: capture_feedback.lambda_handler fetches the user details, then
\* updates the table, then sends the success telemetry; when the telemetry
\* fails after the update, the feedback stays stored, error telemetry is
\* attempted and the response is 500; when the fetch fails, the table is not
\* updated.
FeedbackStepsInOrder ==
    last.op = "capture_feedback" =>
        LET o == last.outcomes
            id == ReverseEnggIdOf(FeedbackData(last.event))
            steps == SelectSeq(last.calls, LAMBDA c : c # "send_error_telemetry")
        IN /\ IsPrefix(steps, CaptureSteps)
           /\ (o.fetch = "ok" /\ o.update = "ok" /\ o.telemetry = "raise") =>
                 /\ feedback_table[id] = FeedbackData(last.event)
                 /\ last.calls[Len(last.calls)] = "send_error_telemetry"
                 /\ response.statusCode = 500
           /\ o.fetch = "raise" =>
                 /\ "update_feedback_in_dynamodb" \notin Range(last.calls)
                 /\ feedback_table = last.before

\* C37: _serialize_kb_batch undoes _serialize_re_id_batch on every list of
\* ids, and it gives every name the id extract_re_id gives it.
PrefixRoundTrip ==
    /\ last.op = "round_trip" => last.kbs = last.kb_batch
    /\ last.op = "serialize_kb_batch" =>
          last.kbs = [i \in 1..Len(last.kb_batch) |-> extract_re_id(last.kb_batch[i])]

\* C38: in both chunk handlers, when the storage call on key i is the first
\* to raise something else than ClientError, the storage was called for the
\* keys up to i and for none after it, what the calls before i did stays
\* done, and the answer is 500 with the handler's error message.
OtherErrorStopsLoop ==
    (/\ last.op \in ChunkOps
     /\ last.event # NoneEvent
     /\ "Chunk_keys" \in DOMAIN last.event
     /\ \E i \in 1..Len(last.outcomes) : last.outcomes[i] = "error") =>
        LET keys == last.event.Chunk_keys
            i == CHOOSE k \in 1..Len(keys) :
                    /\ last.outcomes[k] = "error"
                    /\ \A j \in 1..(k - 1) : last.outcomes[j] # "error"
            done == {keys[j] : j \in {j \in 1..(i - 1) : last.outcomes[j] = "ok"}}
        IN /\ last.calls = SubSeq(keys, 1, i)
           /\ last.op = "chunk_file_content" => done \subseteq bucket
           /\ last.op = "chunk_cleanup" => done \cap bucket = {}
           /\ response = ChunkError(last.op)
           /\ ~last.raised

\* the first chunk is saved, the second call raises, the third key is not
\* attempted and the first chunk stays in the bucket
OtherErrorStopsLoopWitness ==
    /\ last.op = "chunk_file_content"
    /\ last.event # NoneEvent
    /\ "Chunk_keys" \in DOMAIN last.event
    /\ last.event.Chunk_keys = <<"k1", "k2", "k2">>
    /\ last.outcomes = <<"ok", "error", "ok">>
    /\ last.calls = <<"k1", "k2">>
    /\ bucket = {"k1"}
    /\ response.statusCode = 500
============================================================================
